---- MODULE Spec2Model ----
(***************************************************************************)
(* Jubair Boot House: the serverless application entrypoint                *)
(* (vercel_main.py) and the deployment preparation script                  *)
(* (deploy_vercel.py).                                                     *)
(*                                                                         *)
(* The two programs never run in one process.  SpecApp is the web          *)
(* application (startup hook, health endpoint, redirect and page routes);  *)
(* SpecScript is the preparation script and its functions working on the   *)
(* project directory.                                                      *)
(***************************************************************************)
EXTENDS Integers, Sequences, FiniteSets, TLC

VARIABLES
  phase,      \* application process: "stopped", "serving" or "failed"
  dbState,    \* the database: "up", "down", or the error a connection attempt raises
  nStarts,    \* process starts so far
  healthLog,  \* top-level status of every GET /health answered, oldest first
  last,       \* the last execution of the startup hook or of a route handler
  bootLog,    \* what the startup hook printed when it last ran
  disk,       \* the project directory: path -> entry
  lastRun     \* the last execution of a function of the preparation script

vars == <<phase, dbState, nStarts, healthLog, last, bootLog, disk, lastRun>>

(***************************************************************************)
(* Bounds of the model.                                                    *)
(***************************************************************************)
MaxHealthCalls == 3
MaxStarts == 2
MaxDamaged == 2

(***************************************************************************)
(* Calls into app.database.  A call either returns a boolean or raises an  *)
(* exception carrying a message.                                           *)
(***************************************************************************)
Return(v) == [kind |-> "return", value |-> v, msg |-> ""]
Raise(m) == [kind |-> "raise", value |-> FALSE, msg |-> m]
DbCall(fn, outcome) == [fn |-> fn, out |-> outcome]

ExcMessages == {"unable to open database file", "database is locked"}
DbStates == {"up", "down"} \cup ExcMessages

\* test_connection(): true when the database answers, false when it reports
\* being unreachable, or the error raised while probing it.
test_connection(db) ==
  IF db = "up" THEN Return(TRUE)
  ELSE IF db = "down" THEN Return(FALSE)
  ELSE Raise(db)

\* init_db(): what schema creation/verification may answer.
InitDbOutcomes == {Return(TRUE), Return(FALSE)} \cup {Raise(m) : m \in ExcMessages}

(***************************************************************************)
(* startup_event (vercel_main.py 51-69).  tc is what test_connection()     *)
(* answers; idb is what init_db() answers if it is called.  There is no    *)
(* try block in the hook: an exception raised by either call leaves it.    *)
(***************************************************************************)
StartupBanner == <<"Starting Jubair Boot House on Vercel...",
                   "Vercel mode: Using SQLite database">>

\* Mutant: schema initialization is attempted whatever the connectivity check
\* answered.
startup_event_eager(tc, idb) ==
  LET c2 == <<DbCall("test_connection", tc), DbCall("init_db", idb)>>
  IN  IF tc.kind = "raise"
      THEN [raised |-> TRUE, exc |-> tc.msg, calls |-> <<DbCall("test_connection", tc)>>,
            out |-> StartupBanner]
      ELSE IF idb.kind = "raise"
      THEN [raised |-> TRUE, exc |-> idb.msg, calls |-> c2, out |-> StartupBanner]
      ELSE [raised |-> FALSE, exc |-> "", calls |-> c2, out |-> StartupBanner]

startup_event(tc, idb) ==
  LET c1 == <<DbCall("test_connection", tc)>>
      c2 == Append(c1, DbCall("init_db", idb))
  IN  IF tc.kind = "raise"
      THEN [raised |-> TRUE, exc |-> tc.msg, calls |-> c1, out |-> StartupBanner]
      ELSE IF tc.value
      THEN IF idb.kind = "raise"
           THEN [raised |-> TRUE, exc |-> idb.msg, calls |-> c2,
                 out |-> Append(StartupBanner, "SQLite connection established")]
           ELSE IF idb.value
           THEN [raised |-> FALSE, exc |-> "", calls |-> c2,
                 out |-> StartupBanner \o <<"SQLite connection established",
                                            "SQLite tables verified/created">>]
           ELSE [raised |-> FALSE, exc |-> "", calls |-> c2,
                 out |-> StartupBanner \o <<"SQLite connection established",
                                            "SQLite table initialization had issues">>]
      ELSE [raised |-> FALSE, exc |-> "", calls |-> c1,
            out |-> Append(StartupBanner,
              "SQLite connection failed - app will continue with limited functionality")]

(***************************************************************************)
(* health_check (vercel_main.py 71-94).                                    *)
(***************************************************************************)
HealthPayload(db_status) ==
  [status |-> IF db_status = "connected" THEN "healthy" ELSE "warning",
   database |-> [type |-> "SQLite", status |-> db_status],
   environment |-> "vercel",
   platform |-> "serverless",
   app |-> "Jubair Boot House",
   version |-> "1.0.0"]

ErrorPayload(e) == [status |-> "error", message |-> e, environment |-> "vercel"]

\* Mutant: no try block, an exception raised by test_connection leaves
\* the handler.
health_check_unguarded(tc) ==
  IF tc.kind = "raise"
  THEN [raised |-> TRUE, exc |-> tc.msg, calls |-> <<DbCall("test_connection", tc)>>,
        response |-> [kind |-> "none", body |-> [status |-> "none"]]]
  ELSE LET db_status == IF tc.value THEN "connected" ELSE "disconnected"
       IN  [raised |-> FALSE, exc |-> "", calls |-> <<DbCall("test_connection", tc)>>,
            response |-> [kind |-> "json", body |-> HealthPayload(db_status)]]

\* Mutant: the first health result is memoized and served to later calls.
health_check_memoized(tc) ==
  IF healthLog # <<>> /\ healthLog[1] # "error"
  THEN [raised |-> FALSE, exc |-> "", calls |-> <<>>,
        response |-> [kind |-> "json",
                      body |-> HealthPayload(IF healthLog[1] = "healthy"
                                             THEN "connected" ELSE "disconnected")]]
  ELSE IF tc.kind = "raise"
  THEN [raised |-> FALSE, exc |-> "", calls |-> <<DbCall("test_connection", tc)>>,
        response |-> [kind |-> "json", body |-> ErrorPayload(tc.msg)]]
  ELSE LET db_status == IF tc.value THEN "connected" ELSE "disconnected"
       IN  [raised |-> FALSE, exc |-> "", calls |-> <<DbCall("test_connection", tc)>>,
            response |-> [kind |-> "json", body |-> HealthPayload(db_status)]]

health_check(tc) ==
  IF tc.kind = "raise"
  THEN [raised |-> FALSE, exc |-> "", calls |-> <<DbCall("test_connection", tc)>>,
        response |-> [kind |-> "json", body |-> ErrorPayload(tc.msg)]]
  ELSE LET db_status == IF tc.value THEN "connected" ELSE "disconnected"
       IN  [raised |-> FALSE, exc |-> "", calls |-> <<DbCall("test_connection", tc)>>,
            response |-> [kind |-> "json", body |-> HealthPayload(db_status)]]

(***************************************************************************)
(* Redirect routes (vercel_main.py 103-116) and template pages (96-179).   *)
(***************************************************************************)
RedirectResponse(url) == [kind |-> "redirect", url |-> url]
TemplateResponse(name) == [kind |-> "html", template |-> name]

\* Mutant: the catalog is rendered in place instead of redirecting.
catalog_rendered == TemplateResponse("catalog.html")

catalog_redirect == RedirectResponse("/products/")
admin_dashboard_redirect == RedirectResponse("/products/admin/dashboard")
admin_users_redirect == RedirectResponse("/auth/admin/users")

RedirectPaths == {"/catalog", "/admin/dashboard", "/admin/users"}

RedirectRoute(path) ==
  CASE path = "/catalog" -> catalog_redirect
    [] path = "/admin/dashboard" -> admin_dashboard_redirect
    [] path = "/admin/users" -> admin_users_redirect

PageTemplates ==
  [p \in {"/", "/size-guide", "/contact", "/about", "/faq", "/terms",
          "/privacy", "/cookies", "/returns", "/shipping"} |->
     CASE p = "/" -> "home.html"
       [] p = "/size-guide" -> "size_guide.html"
       [] p = "/contact" -> "contact.html"
       [] p = "/about" -> "about.html"
       [] p = "/faq" -> "faq.html"
       [] p = "/terms" -> "terms.html"
       [] p = "/privacy" -> "privacy.html"
       [] p = "/cookies" -> "cookies.html"
       [] p = "/returns" -> "returns.html"
       [] p = "/shipping" -> "shipping.html"]

PageRoute(path) == TemplateResponse(PageTemplates[path])

(***************************************************************************)
(* The project directory seen by deploy_vercel.py.  An entry is absent, a  *)
(* directory, or a file with its lines.                                    *)
(***************************************************************************)
required_files == <<"vercel.json", "vercel_main.py", "requirements-vercel.txt">>
required_dirs == <<"app", "static", "templates">>
SecretKeyFile == "vercel_secret_key.txt"
ChecklistFile == "VERCEL-CHECKLIST.md"

Range(s) == {s[i] : i \in DOMAIN s}
Paths == Range(required_files) \cup Range(required_dirs) \cup {SecretKeyFile, ChecklistFile}

Absent == [kind |-> "absent", lines |-> <<>>]
Dir == [kind |-> "dir", lines |-> <<>>]
File(lines) == [kind |-> "file", lines |-> lines]

\* os.path.exists, os.path.isdir
exists(d, p) == d[p].kind # "absent"
\* Mutant: anything that exists counts as a directory.
isdir_any(d, p) == d[p].kind # "absent"

isdir(d, p) == d[p].kind = "dir"

\* One print() call: the leading mark (check, cross or none), the format
\* text and the values interpolated into it.
Line(mark, text, args) == [mark |-> mark, text |-> text, args |-> args]

NoneValue == "None"
Tokens == {"tokenA", "tokenB"}

(***************************************************************************)
(* check_vercel_files (deploy_vercel.py 12-34).                            *)
(***************************************************************************)
RECURSIVE vercel_files_loop(_, _, _, _)
vercel_files_loop(d, i, missing_files, out) ==
  IF i > Len(required_files)
  THEN [missing_files |-> missing_files, out |-> out]
  ELSE LET file == required_files[i]
       IN  IF ~exists(d, file)
           THEN vercel_files_loop(d, i + 1, Append(missing_files, file), out)
           ELSE vercel_files_loop(d, i + 1, missing_files,
                                  Append(out, Line("check", "{file}", <<file>>)))

check_vercel_files(d) ==
  LET l == vercel_files_loop(d, 1, <<>>,
             <<Line("none", "Checking Vercel deployment files...", <<>>)>>)
  IN  IF l.missing_files # <<>>
      THEN [ret |-> FALSE, raised |-> FALSE, disk |-> d,
            out |-> Append(l.out, Line("cross", "Missing files: {', '.join(missing_files)}",
                                       l.missing_files))]
      ELSE [ret |-> TRUE, raised |-> FALSE, disk |-> d,
            out |-> Append(l.out, Line("check", "All Vercel files are present!", <<>>))]

(***************************************************************************)
(* check_project_structure (deploy_vercel.py 36-54): the loop returns at   *)
(* the first directory that is missing.                                    *)
(***************************************************************************)
RECURSIVE project_structure_loop(_, _, _)
project_structure_loop(d, i, out) ==
  IF i > Len(required_dirs)
  THEN [ret |-> TRUE, raised |-> FALSE, disk |-> d,
        out |-> Append(out, Line("check", "Project structure is correct!", <<>>))]
  ELSE LET dir_name == required_dirs[i]
       IN  IF exists(d, dir_name) /\ isdir(d, dir_name)
           THEN project_structure_loop(d, i + 1,
                  Append(out, Line("check", "{dir_name}/ directory", <<dir_name>>)))
           ELSE [ret |-> FALSE, raised |-> FALSE, disk |-> d,
                 out |-> Append(out, Line("cross", "{dir_name}/ directory missing",
                                          <<dir_name>>))]

check_project_structure(d) ==
  project_structure_loop(d, 1, <<Line("none", "Checking project structure...", <<>>)>>)

(***************************************************************************)
(* generate_secret_key (deploy_vercel.py 56-77).  token is what            *)
(* secrets.token_urlsafe(32) returns; fault is where an exception is       *)
(* raised inside the try block, if anywhere:                               *)
(*   "token"   generating or printing the token (lines 61-63)              *)
(*   "open"    opening the file for writing (line 66)                      *)
(*   "writeN"  writing, after the file was truncated and N lines reached   *)
(*             it (lines 66-69)                                            *)
(*   "print"   the messages after the file was closed (lines 71-72)        *)
(* Opening a path that is a directory raises as well.                      *)
(***************************************************************************)
KV(k, v) == [key |-> k, value |-> v]

SecretLines(secret_key) ==
  <<KV("SECRET_KEY", secret_key), KV("ENVIRONMENT", "production"), KV("DEBUG", "false")>>

WriteFaults == {"write0", "write1"}
SecretFaults == {"none", "token", "open", "print"} \cup WriteFaults

FlushedLines(fault) ==
  CASE fault = "write0" -> 0
    [] fault = "write1" -> 1

\* Mutant: the file is opened for appending.
generate_secret_key_append(d, token, fault) ==
  LET caught(dd) == [ret |-> NoneValue, raised |-> FALSE, disk |-> dd]
      written == [d EXCEPT ![SecretKeyFile] = File(d[SecretKeyFile].lines \o SecretLines(token))]
  IN  IF fault = "token" THEN caught(d)
      ELSE IF isdir(d, SecretKeyFile) \/ fault = "open" THEN caught(d)
      ELSE IF fault \in WriteFaults
      THEN caught([d EXCEPT ![SecretKeyFile] =
                     File(d[SecretKeyFile].lines
                          \o SubSeq(SecretLines(token), 1, FlushedLines(fault)))])
      ELSE IF fault = "print" THEN caught(written)
      ELSE [ret |-> token, raised |-> FALSE, disk |-> written]

generate_secret_key(d, token, fault) ==
  LET caught(dd) == [ret |-> NoneValue, raised |-> FALSE, disk |-> dd]
      written == [d EXCEPT ![SecretKeyFile] = File(SecretLines(token))]
  IN  IF fault = "token" THEN caught(d)
      ELSE IF isdir(d, SecretKeyFile) \/ fault = "open" THEN caught(d)
      ELSE IF fault \in WriteFaults
      THEN caught([d EXCEPT ![SecretKeyFile] =
                     File(SubSeq(SecretLines(token), 1, FlushedLines(fault)))])
      ELSE IF fault = "print" THEN caught(written)
      ELSE [ret |-> token, raised |-> FALSE, disk |-> written]

(***************************************************************************)
(* create_deployment_checklist (deploy_vercel.py 79-136).  No try block:   *)
(* an error opening or writing the file leaves the function.               *)
(***************************************************************************)
checklist_content ==
  <<"# Vercel Deployment Checklist", "## Pre-Deployment", "## Deployment Steps",
    "## Post-Deployment Testing", "## Environment Variables for Vercel",
    "## Your Vercel URL", "## Important Notes">>

ChecklistFaults == {"none", "open", "write"}

create_deployment_checklist(d, fault) ==
  IF isdir(d, ChecklistFile) \/ fault = "open"
  THEN [ret |-> NoneValue, raised |-> TRUE, disk |-> d]
  ELSE IF fault = "write"
  THEN [ret |-> NoneValue, raised |-> TRUE,
        disk |-> [d EXCEPT ![ChecklistFile] = File(<<>>)]]
  ELSE [ret |-> NoneValue, raised |-> FALSE,
        disk |-> [d EXCEPT ![ChecklistFile] = File(checklist_content)]]

(***************************************************************************)
(* main (deploy_vercel.py 138-171) and the script's exit (173-175).        *)
(* calls lists the functions main called, with what each returned.         *)
(***************************************************************************)
FnCall(fn, ret) == [fn |-> fn, ret |-> ret]

MainResult(ret, raised, d, calls) ==
  [ret |-> ret, raised |-> raised, disk |-> d, calls |-> calls]

\* Mutant: a failed file check is reported but main carries on.
main_carries_on(d, token, sfault, cfault) ==
  LET r1 == check_vercel_files(d)
      c1 == <<FnCall("check_vercel_files", r1.ret)>>
      r2 == check_project_structure(r1.disk)
      c2 == Append(c1, FnCall("check_project_structure", r2.ret))
      r3 == generate_secret_key(r2.disk, token, sfault)
      c3 == Append(c2, FnCall("generate_secret_key", r3.ret))
      r4 == create_deployment_checklist(r3.disk, cfault)
      c4 == Append(c3, FnCall("create_deployment_checklist", r4.ret))
  IN  IF ~r2.ret THEN MainResult(FALSE, FALSE, r2.disk, c2)
      ELSE IF r3.ret = NoneValue THEN MainResult(FALSE, FALSE, r3.disk, c3)
      ELSE IF r4.raised THEN MainResult(FALSE, TRUE, r4.disk, c4)
      ELSE MainResult(r1.ret, FALSE, r4.disk, c4)

main(d, token, sfault, cfault) ==
  LET r1 == check_vercel_files(d)
      c1 == <<FnCall("check_vercel_files", r1.ret)>>
      r2 == check_project_structure(r1.disk)
      c2 == Append(c1, FnCall("check_project_structure", r2.ret))
      r3 == generate_secret_key(r2.disk, token, sfault)
      c3 == Append(c2, FnCall("generate_secret_key", r3.ret))
      r4 == create_deployment_checklist(r3.disk, cfault)
      c4 == Append(c3, FnCall("create_deployment_checklist", r4.ret))
  IN  IF r1.raised THEN MainResult(FALSE, TRUE, r1.disk, c1)
      ELSE IF ~r1.ret THEN MainResult(FALSE, FALSE, r1.disk, c1)
      ELSE IF r2.raised THEN MainResult(FALSE, TRUE, r2.disk, c2)
      ELSE IF ~r2.ret THEN MainResult(FALSE, FALSE, r2.disk, c2)
      ELSE IF r3.raised THEN MainResult(FALSE, TRUE, r3.disk, c3)
      ELSE IF r3.ret = NoneValue THEN MainResult(FALSE, FALSE, r3.disk, c3)
      ELSE IF r4.raised THEN MainResult(FALSE, TRUE, r4.disk, c4)
      ELSE MainResult(TRUE, FALSE, r4.disk, c4)

\* sys.exit(0 if success else 1); an exception that leaves main ends the
\* interpreter with a traceback and exit status 1.
\* Mutant: sys.exit(success), which exits with 1 for True and 0 for False.
exit_code_of_bool(r) == IF r.raised THEN 1 ELSE IF r.ret THEN 1 ELSE 0

exit_code(r) == IF r.raised THEN 1 ELSE IF r.ret THEN 0 ELSE 1

(***************************************************************************)
(* Runs of the script and of its functions, and changes made to the        *)
(* project directory from outside.                                         *)
(***************************************************************************)
RequiredPaths == Range(required_files) \cup Range(required_dirs)

PristineDisk ==
  [p \in Paths |->
     IF p \in Range(required_files) THEN File(<<>>)
     ELSE IF p \in Range(required_dirs) THEN Dir
     ELSE Absent]

StaleSecret ==
  <<KV("SECRET_KEY", "stale"), KV("ENVIRONMENT", "development"), KV("DEBUG", "true"),
    KV("DATABASE_URL", "sqlite:///old.db")>>

EnvEntries(p) ==
  IF p = SecretKeyFile THEN {Absent, Dir, File(StaleSecret)}
  ELSE IF p = ChecklistFile THEN {Absent, Dir, File(<<"old notes">>)}
  ELSE {Absent, Dir, File(<<>>)}

\* Required entries that are not as the repository ships them.
Damaged(d) == {p \in RequiredPaths : d[p] # PristineDisk[p]}

NoRun == [event |-> "none"]

RunOf(event, r) == [event |-> event, ret |-> r.ret, raised |-> r.raised]

CheckerRunOf(event, r) ==
  [event |-> event, ret |-> r.ret, raised |-> r.raised, out |-> r.out]

(***************************************************************************)
(* The application process.                                                *)
(***************************************************************************)
NoExecution == [handler |-> "none", path |-> "", raised |-> FALSE, exc |-> "",
                calls |-> <<>>, response |-> [kind |-> "none"]]

Execution(handler, path, r, response) ==
  [handler |-> handler, path |-> path, raised |-> r.raised, exc |-> r.exc,
   calls |-> r.calls, response |-> response]

AppInit ==
  /\ phase = "stopped"
  /\ dbState \in DbStates
  /\ nStarts = 0
  /\ healthLog = <<>>
  /\ last = NoExecution
  /\ bootLog = <<>>
  /\ disk = PristineDisk
  /\ lastRun = NoRun

\* The process starts and runs the startup hook; the framework serves
\* requests only if the hook returned.
Startup ==
  /\ phase = "stopped"
  /\ nStarts < MaxStarts
  /\ \E idb \in InitDbOutcomes :
       LET r == startup_event(test_connection(dbState), idb)
       IN  /\ last' = Execution("startup_event", "", r, [kind |-> "none"])
           /\ bootLog' = r.out
           /\ phase' = IF r.raised THEN "failed" ELSE "serving"
  /\ nStarts' = nStarts + 1
  /\ UNCHANGED <<dbState, healthLog, disk, lastRun>>

\* A serverless instance is discarded; the next request starts a new one.
ColdStart ==
  /\ phase \in {"serving", "failed"}
  /\ phase' = "stopped"
  /\ UNCHANGED <<dbState, nStarts, healthLog, last, bootLog, disk, lastRun>>

\* The database becomes reachable, unreachable or faulty.
DbChange ==
  /\ \E s \in DbStates \ {dbState} : dbState' = s
  /\ UNCHANGED <<phase, nStarts, healthLog, last, bootLog, disk, lastRun>>

GetHealth ==
  /\ phase = "serving"
  /\ Len(healthLog) < MaxHealthCalls
  /\ LET r == health_check(test_connection(dbState))
     IN  /\ last' = Execution("health_check", "/health", r, r.response)
         /\ healthLog' = Append(healthLog, r.response.body.status)
  /\ UNCHANGED <<phase, dbState, nStarts, bootLog, disk, lastRun>>

GetRedirect ==
  /\ phase = "serving"
  /\ \E path \in RedirectPaths :
       last' = Execution("redirect", path,
                         [raised |-> FALSE, exc |-> "", calls |-> <<>>],
                         RedirectRoute(path))
  /\ UNCHANGED <<phase, dbState, nStarts, healthLog, bootLog, disk, lastRun>>

GetPage ==
  /\ phase = "serving"
  /\ \E path \in DOMAIN PageTemplates :
       last' = Execution("page", path,
                         [raised |-> FALSE, exc |-> "", calls |-> <<>>],
                         PageRoute(path))
  /\ UNCHANGED <<phase, dbState, nStarts, healthLog, bootLog, disk, lastRun>>

AppNext ==
  \/ Startup
  \/ ColdStart
  \/ DbChange
  \/ GetHealth
  \/ GetRedirect
  \/ GetPage

SpecApp == AppInit /\ [][AppNext]_vars

(***************************************************************************)
(* The preparation script.                                                 *)
(***************************************************************************)
ScriptInit ==
  /\ phase = "stopped"
  /\ dbState = "up"
  /\ nStarts = 0
  /\ healthLog = <<>>
  /\ last = NoExecution
  /\ bootLog = <<>>
  /\ disk = PristineDisk
  /\ lastRun = NoRun

\* Somebody creates, replaces or removes an entry of the project directory.
EnvChange ==
  /\ \E p \in Paths : \E e \in EnvEntries(p) \ {disk[p]} :
       disk' = [disk EXCEPT ![p] = e]
  /\ Cardinality(Damaged(disk')) <= MaxDamaged
  /\ lastRun' = [event |-> "env"]
  /\ UNCHANGED <<phase, dbState, nStarts, healthLog, last, bootLog>>

\* The same, on the required files and directories only, without a limit.
ProjectChange ==
  /\ \E p \in RequiredPaths : \E e \in EnvEntries(p) \ {disk[p]} :
       disk' = [disk EXCEPT ![p] = e]
  /\ lastRun' = [event |-> "env"]
  /\ UNCHANGED <<phase, dbState, nStarts, healthLog, last, bootLog>>

CallCheckVercelFiles ==
  /\ LET r == check_vercel_files(disk)
     IN  disk' = r.disk /\ lastRun' = CheckerRunOf("check_vercel_files", r)
  /\ UNCHANGED <<phase, dbState, nStarts, healthLog, last, bootLog>>

CallCheckProjectStructure ==
  /\ LET r == check_project_structure(disk)
     IN  disk' = r.disk /\ lastRun' = CheckerRunOf("check_project_structure", r)
  /\ UNCHANGED <<phase, dbState, nStarts, healthLog, last, bootLog>>

CallGenerateSecretKey ==
  /\ \E token \in Tokens, fault \in SecretFaults :
       LET r == generate_secret_key(disk, token, fault)
       IN  /\ disk' = r.disk
           /\ lastRun' = [event |-> "generate_secret_key", ret |-> r.ret,
                          raised |-> r.raised, prior |-> disk[SecretKeyFile]]
  /\ UNCHANGED <<phase, dbState, nStarts, healthLog, last, bootLog>>

CallCreateDeploymentChecklist ==
  /\ \E fault \in ChecklistFaults :
       LET r == create_deployment_checklist(disk, fault)
       IN  disk' = r.disk /\ lastRun' = RunOf("create_deployment_checklist", r)
  /\ UNCHANGED <<phase, dbState, nStarts, healthLog, last, bootLog>>

\* python deploy_vercel.py
RunScript ==
  /\ \E token \in Tokens, sfault \in SecretFaults, cfault \in ChecklistFaults :
       LET r == main(disk, token, sfault, cfault)
       IN  /\ disk' = r.disk
           /\ lastRun' = [event |-> "script", ret |-> r.ret, raised |-> r.raised,
                          calls |-> r.calls, exit |-> exit_code(r)]
  /\ UNCHANGED <<phase, dbState, nStarts, healthLog, last, bootLog>>

ScriptNext ==
  \/ EnvChange
  \/ CallGenerateSecretKey
  \/ CallCreateDeploymentChecklist
  \/ RunScript

SpecScript == ScriptInit /\ [][ScriptNext]_vars

CheckersNext ==
  \/ ProjectChange
  \/ CallCheckVercelFiles
  \/ CallCheckProjectStructure

SpecCheckers == ScriptInit /\ [][CheckersNext]_vars

(***************************************************************************)
(* Properties of the application (SpecApp).                                *)
(***************************************************************************)
\* A step that answers GET /health: the health log grows by one entry.
HealthStep == healthLog' # healthLog

\* C1: every GET /health returns a payload and never raises; with o the
\* answer of test_connection at the call, status is "healthy" exactly when o
\* is true (database.status "connected"), "warning" exactly when o is false
\* (database.status "disconnected"), "error" exactly when o is a raised
\* exception, and then message is the exception's text.
C1_HealthStatus ==
  [][HealthStep =>
       LET o == test_connection(dbState)
           b == last'.response.body
       IN  /\ last'.handler = "health_check"
           /\ ~last'.raised
           /\ last'.response.kind = "json"
           /\ b.status \in {"healthy", "warning", "error"}
           /\ (b.status = "healthy" <=> (o.kind = "return" /\ o.value))
           /\ (b.status = "healthy" => b.database.status = "connected")
           /\ (b.status = "warning" <=> (o.kind = "return" /\ ~o.value))
           /\ (b.status = "warning" => b.database.status = "disconnected")
           /\ (b.status = "error" <=> o.kind = "raise")
           /\ (b.status = "error" => b.message = o.msg)]_vars

\* C1 witness: a health call answered "error" with the raised message, the
\* handler having returned.
C1_Witness ==
  /\ last.handler = "health_check"
  /\ ~last.raised
  /\ last.response.body.status = "error"
  /\ last.response.body.message = "database is locked"
  /\ dbState = "database is locked"

\* The status a check of the database reports, from its connectivity now.
LiveStatus(db) ==
  CASE db = "up" -> "healthy"
    [] db = "down" -> "warning"
    [] OTHER -> "error"

\* C2: the health endpoint is a live check: each GET /health makes its own
\* single test_connection call, and the status it reports is the one of the
\* database's connectivity at that call, whatever the startup hook found and
\* whatever earlier health calls reported.
C2_LiveCheck ==
  [][HealthStep =>
       /\ last'.calls = <<DbCall("test_connection", test_connection(dbState))>>
       /\ last'.response.body.status = LiveStatus(dbState)
       /\ healthLog' = Append(healthLog, LiveStatus(dbState))]_vars

\* C2 witness: the startup hook found the database unreachable, an earlier
\* health call reported "warning", and the last one reports "healthy".
C2_Witness ==
  /\ last.handler = "health_check"
  /\ Len(bootLog) = 3
  /\ bootLog[3] = "SQLite connection failed - app will continue with limited functionality"
  /\ Len(healthLog) = 2
  /\ healthLog[1] = "warning"
  /\ healthLog[2] = "healthy"

\* C3: the startup hook never fails startup: whatever test_connection and
\* init_db answer or raise, startup_event returns and the application
\* serves requests.
C3_StartupNeverFails ==
  /\ phase # "failed"
  /\ (last.handler = "startup_event" => ~last.raised)

\* C8: each redirect route answers with a redirect, not markup, to its
\* canonical path, whatever the database state and the earlier requests.
C8_RedirectTargets ==
  last.handler = "redirect" =>
    /\ ~last.raised
    /\ last.response.kind = "redirect"
    /\ last.path \in {"/catalog", "/admin/dashboard", "/admin/users"}
    /\ (last.path = "/catalog" => last.response.url = "/products/")
    /\ (last.path = "/admin/dashboard" => last.response.url = "/products/admin/dashboard")
    /\ (last.path = "/admin/users" => last.response.url = "/auth/admin/users")

\* C8 witness: GET /catalog answered after a health call, with the database
\* unreachable.
C8_Witness ==
  /\ last.handler = "redirect"
  /\ last.path = "/catalog"
  /\ last.response.url = "/products/"
  /\ dbState = "down"
  /\ Len(healthLog) > 0

CallsTo(calls, fn) == {i \in DOMAIN calls : calls[i].fn = fn}

\* C10: in one execution of the startup hook test_connection is called
\* exactly once and init_db at most once, init_db only after test_connection
\* returned true; when the check returns false, init_db is not called.
C10_StartupCalls ==
  last.handler = "startup_event" =>
    LET tcs == CallsTo(last.calls, "test_connection")
        idbs == CallsTo(last.calls, "init_db")
    IN  /\ Cardinality(tcs) = 1
        /\ Cardinality(idbs) <= 1
        /\ \A i \in idbs : \E j \in tcs :
             /\ j < i
             /\ last.calls[j].out = Return(TRUE)
        /\ (\E j \in tcs : last.calls[j].out = Return(FALSE)) => idbs = {}

\* C10 witness: a startup whose connectivity check returned true and which
\* then called init_db once.
C10_Witness ==
  /\ last.handler = "startup_event"
  /\ Len(last.calls) = 2
  /\ last.calls[1] = DbCall("test_connection", Return(TRUE))
  /\ last.calls[2].fn = "init_db"

(***************************************************************************)
(* Properties of the preparation script (SpecScript, SpecCheckers).        *)
(***************************************************************************)
Returned(calls, fn, v) == \E i \in DOMAIN calls : calls[i].fn = fn /\ calls[i].ret = v
Called(calls, fn) == \E i \in DOMAIN calls : calls[i].fn = fn

\* The required-file check, the structure check and secret generation all
\* succeeded in the run that calls records.
ThreeSucceeded(calls) ==
  /\ Returned(calls, "check_vercel_files", TRUE)
  /\ Returned(calls, "check_project_structure", TRUE)
  /\ \E i \in DOMAIN calls :
       calls[i].fn = "generate_secret_key" /\ calls[i].ret # NoneValue

\* C4, as claimed: the script exits with 0 exactly when the required-file
\* check, the structure check and secret generation all succeed, and with 1
\* when one of them fails.
C4_ExitCodeClaimed ==
  lastRun.event = "script" =>
    /\ lastRun.exit \in {0, 1}
    /\ (lastRun.exit = 0 <=> ThreeSucceeded(lastRun.calls))
    /\ (~ThreeSucceeded(lastRun.calls) => lastRun.exit = 1)

\* C4, amended: the script exits with 0 exactly when the three succeed and
\* create_deployment_checklist then returns without raising; it exits with 1
\* when one of the three fails, and also when the three succeed and the
\* unguarded checklist write raises.  No other exit code is produced.
C4_ExitCode ==
  lastRun.event = "script" =>
    LET wrote == Called(lastRun.calls, "create_deployment_checklist")
    IN  /\ lastRun.exit \in {0, 1}
        /\ (lastRun.exit = 0 <=> (ThreeSucceeded(lastRun.calls) /\ ~lastRun.raised))
        /\ (~ThreeSucceeded(lastRun.calls) => lastRun.exit = 1)
        /\ (lastRun.raised => (ThreeSucceeded(lastRun.calls) /\ wrote /\ lastRun.exit = 1))
        /\ (lastRun.exit = 0 => disk[ChecklistFile] = File(checklist_content))

\* C4 witness: the three steps succeeded, the checklist path is a directory,
\* the write raised and the script exited with 1.
C4_Witness ==
  /\ lastRun.event = "script"
  /\ ThreeSucceeded(lastRun.calls)
  /\ lastRun.raised
  /\ lastRun.exit = 1
  /\ disk[ChecklistFile].kind = "dir"
  /\ disk[SecretKeyFile].kind = "file"

\* C5: check_vercel_files returns true iff vercel.json, vercel_main.py and
\* requirements-vercel.txt all exist; check_project_structure returns true
\* iff app, static and templates each exist and are directories; removing
\* one required item from a state where a checker returns true makes it
\* return false; and neither checker changes the project directory.
C5_Checkers ==
  [][/\ lastRun'.event = "check_vercel_files" =>
          LET files == {"vercel.json", "vercel_main.py", "requirements-vercel.txt"}
          IN  /\ disk' = disk
              /\ lastRun'.ret = (\A f \in files : disk[f].kind # "absent")
              /\ lastRun'.ret =>
                   \A f \in files : ~check_vercel_files([disk EXCEPT ![f] = Absent]).ret
     /\ lastRun'.event = "check_project_structure" =>
          LET dirs == {"app", "static", "templates"}
          IN  /\ disk' = disk
              /\ lastRun'.ret = (\A x \in dirs : disk[x].kind = "dir")
              /\ lastRun'.ret =>
                   \A x \in dirs : ~check_project_structure([disk EXCEPT ![x] = Absent]).ret]_vars

\* C5 witness: check_project_structure returned false where static exists
\* but is a file and the other two directories are present.
C5_Witness ==
  /\ lastRun.event = "check_project_structure"
  /\ lastRun.ret = FALSE
  /\ disk["static"].kind = "file"
  /\ disk["app"].kind = "dir"
  /\ disk["templates"].kind = "dir"

\* C6: generate_secret_key never propagates an exception and ends in one of
\* two outcomes: it returns the generated token T and vercel_secret_key.txt
\* holds exactly SECRET_KEY=T, ENVIRONMENT=production, DEBUG=false, nothing
\* of its prior content remaining; or it returns None.
C6_SecretKey ==
  lastRun.event = "generate_secret_key" =>
    /\ ~lastRun.raised
    /\ \/ lastRun.ret = NoneValue
       \/ /\ lastRun.ret \in Tokens
          /\ disk[SecretKeyFile] =
               [kind |-> "file",
                lines |-> <<[key |-> "SECRET_KEY", value |-> lastRun.ret],
                            [key |-> "ENVIRONMENT", value |-> "production"],
                            [key |-> "DEBUG", value |-> "false"]>>]

\* C6 witness: a token was returned by a call that found a stale four-line
\* file, which now holds the three new lines.
C6_Witness ==
  /\ lastRun.event = "generate_secret_key"
  /\ lastRun.ret = "tokenB"
  /\ lastRun.prior = File(StaleSecret)
  /\ Len(disk[SecretKeyFile].lines) = 3

\* C7: one run of check_vercel_files reports the presence or absence of
\* each of the three required files, and one run of check_project_structure
\* prints a checkmark or a cross for each of the three required
\* directories, those listed after a missing one included.
C7_ReportsEveryItem ==
  /\ lastRun.event = "check_vercel_files" =>
       \A f \in {"vercel.json", "vercel_main.py", "requirements-vercel.txt"} :
         \E i \in DOMAIN lastRun.out :
           /\ lastRun.out[i].mark \in {"check", "cross"}
           /\ \E k \in DOMAIN lastRun.out[i].args : lastRun.out[i].args[k] = f
  /\ lastRun.event = "check_project_structure" =>
       \A x \in {"app", "static", "templates"} :
         \E i \in DOMAIN lastRun.out :
           /\ lastRun.out[i].mark \in {"check", "cross"}
           /\ lastRun.out[i].args = <<x>>

\* C9: in every run of main, vercel_secret_key.txt is written only if
\* check_vercel_files and check_project_structure both returned true, and
\* VERCEL-CHECKLIST.md only if generate_secret_key also returned a token; a
\* run aborted by a failed file or structure check leaves both files as they
\* were; check_project_structure is not evaluated when check_vercel_files
\* fails.
C9_ArtifactsAfterChecks ==
  [][lastRun'.event = "script" =>
       LET c == lastRun'.calls
           checksPassed == /\ Returned(c, "check_vercel_files", TRUE)
                           /\ Returned(c, "check_project_structure", TRUE)
       IN  /\ (disk'[SecretKeyFile] # disk[SecretKeyFile]
                 \/ Called(c, "generate_secret_key")) => checksPassed
           /\ (disk'[ChecklistFile] # disk[ChecklistFile]
                 \/ Called(c, "create_deployment_checklist")) => ThreeSucceeded(c)
           /\ ~checksPassed =>
                /\ disk'[SecretKeyFile] = disk[SecretKeyFile]
                /\ disk'[ChecklistFile] = disk[ChecklistFile]
                /\ ~lastRun'.ret
           /\ Returned(c, "check_vercel_files", FALSE) =>
                ~Called(c, "check_project_structure")]_vars

\* C9 witness: a run aborted by the file check, with the app directory
\* missing too: only check_vercel_files was called and the stale secret
\* file is still there.
C9_Witness ==
  /\ lastRun.event = "script"
  /\ lastRun.calls = <<FnCall("check_vercel_files", FALSE)>>
  /\ disk["app"].kind = "absent"
  /\ disk[SecretKeyFile] = File(StaleSecret)
  /\ disk[ChecklistFile].kind = "absent"

====
